---- MODULE Spec2Model ----
(***************************************************************************)
(* Model of event_emitter_rs (src/src/lib.rs): the EventEmitter registry   *)
(* (HashMap<String, Vec<Listener>>), its registration, emit and removal    *)
(* operations, and the threads emit spawns for the listeners' callbacks.   *)
(*                                                                         *)
(* Conventions.  Option<T> is a sequence: None is <<>>, Some(x) is <<x>>.  *)
(* Vec indices are 1-based here and 0-based in the source.  A listener's   *)
(* callback is the closure built by on_limited, which decodes the bytes as *)
(* the callback's parameter type T: the model keeps T (field ty).          *)
(***************************************************************************)
EXTENDS Integers, Sequences, FiniteSets, TLC

\* ---------------------------------------------------------------- bounds
MaxIds == 2     \* registrations in a run
MaxEmits == 3   \* emit calls in a run
MaxBucket == 3  \* listeners of a bucket in an initial state of SpecBucket

\* ------------------------------------------------------------- universes
Events == {"x", "y"}
IdPool == 1..MaxIds

None == <<>>
Some(x) == <<x>>

\* The limits a client passes to on_limited.
Limits == { None, Some(0), Some(1), Some(2) }

\* Parameter types T of the callbacks and of the emitted values.  "opaque"
\* stands for a type whose Serialize implementation reports an error.
Types == {"u8", "u32"}
Values ==
    { [ty |-> "u8", v |-> 7],
      [ty |-> "u32", v |-> 263],
      [ty |-> "opaque", v |-> 0] }

Min(a, b) == IF a <= b THEN a ELSE b

\* ------------------------------------------------------------ the codec
\* bincode::serialize(&value): fixed-width little-endian integers.
\* mutant: every value serializes
serialize_always(value) == TRUE

serialize_ok(value) == value.ty \in {"u8", "u32"}

\* mutant: every integer is written as one byte
serialize_byte(value) == << value.v % 256 >>

serialize(value) ==
    IF value.ty = "u8"
    THEN << value.v % 256 >>
    ELSE << value.v % 256,
            (value.v \div 256) % 256,
            (value.v \div 65536) % 256,
            (value.v \div 16777216) % 256 >>

\* bincode::deserialize::<T>(&bytes): reads the bytes T needs from the front,
\* fails when there are too few, and ignores what is left over.
deserialize_ok(ty, bytes) ==
    IF ty = "u8" THEN Len(bytes) >= 1 ELSE Len(bytes) >= 4

deserialize(ty, bytes) ==
    IF ty = "u8"
    THEN [ty |-> "u8", v |-> bytes[1]]
    ELSE [ty |-> "u32",
          v |-> bytes[1] + 256 * bytes[2] + 65536 * bytes[3] + 16777216 * bytes[4]]

\* ----------------------------------------------------------------- state
VARIABLES
    listeners,  \* EventEmitter.listeners: event name -> Vec<Listener>
    threads,    \* the threads spawned by emit that have not run yet
    finished,   \* history: the outcomes of the threads that have run
    log,        \* per listener, the values its callback has been called with
                \* in call order (the list a callback appends to, tests.rs:30-36)
    nspawn,     \* history: number of threads spawned (names the JoinHandles)
    issued,     \* history: the ids returned by the registrations, in order
    reg,        \* history: per issued id, its registration and its use
                \* until remove_listener removes it
    nemit,      \* history: number of emit calls made
    last,       \* history: the last call, its arguments, what it returned
                \* and whether it panicked instead
    mutex,      \* the Mutex of a shared emitter: who holds its guard, and
                \* whether it is poisoned
    callers     \* per thread calling a shared emitter, where it is in its call

vars == <<listeners, threads, finished, log, nspawn, issued, reg, nemit, last,
          mutex, callers>>

\* struct Listener { callback, limit, id }
Listener(id, limit, ty) == [id |-> id, limit |-> limit, ty |-> ty]

NoValue == [ty |-> "none", v |-> 0]

NoCall ==
    [op |-> "new", event |-> "", id |-> 0, value |-> NoValue, ret |-> <<>>,
     panic |-> FALSE]

\* The threads that call a shared emitter.
Callers == {"a", "b"}

\* Mutex::new(EventEmitter::new()): nobody holds the guard.
Free == [caller |-> "", thread |-> 0]
NewMutex == [holder |-> Free, poisoned |-> FALSE]
Idle == [pc |-> "idle", event |-> "", value |-> NoValue, ret |-> <<>>,
         to_remove |-> <<>>]

\* A step of an emitter that its caller owns: no Mutex is involved.
Owned == UNCHANGED <<mutex, callers>>

Init ==
    /\ listeners = <<>>
    /\ threads = {}
    /\ finished = {}
    /\ log = [i \in IdPool |-> <<>>]
    /\ nspawn = 0
    /\ issued = <<>>
    /\ reg = <<>>
    /\ nemit = 0
    /\ last = NoCall
    /\ mutex = NewMutex
    /\ callers = [c \in Callers |-> Idle]

\* -------------------------------------------------------------- helpers
\* Vec::remove(index)
RemoveAt(s, i) == SubSeq(s, 1, i - 1) \o SubSeq(s, i + 1, Len(s))

\* iter().position(|listener| listener.id == id)
\* mutant: position(..).unwrap_or(0)
PositionOrFirst(s, id) ==
    IF \E i \in 1..Len(s) : s[i].id = id
    THEN Some(CHOOSE i \in 1..Len(s) :
                 /\ s[i].id = id
                 /\ \A j \in 1..(i - 1) : s[j].id # id)
    ELSE IF Len(s) > 0 THEN Some(1) ELSE None

Position(s, id) ==
    IF \E i \in 1..Len(s) : s[i].id = id
    THEN Some(CHOOSE i \in 1..Len(s) :
                 /\ s[i].id = id
                 /\ \A j \in 1..(i - 1) : s[j].id # id)
    ELSE None

Ids(s) == { s[i].id : i \in 1..Len(s) }

RegistryIds == UNION { Ids(listeners[e]) : e \in DOMAIN listeners }

\* Uuid::new_v4(): a random 122-bit value, taken to differ from every id
\* drawn before.  Ids are only ever compared for equality, so which fresh
\* value is drawn is immaterial: the model draws the least unused one.
Unused == IdPool \ { issued[i] : i \in 1..Len(issued) }

\* mutant: an id generator that can repeat itself
NewIdsReused == IF Unused = {} THEN {} ELSE IdPool
NewIds ==
    IF Unused = {} THEN {}
    ELSE { CHOOSE i \in Unused : \A j \in Unused : i <= j }


\* ------------------------------------------------------- registration
\* The insert of line 298 taken for an event that has a bucket already.
PushListenerInsert(ls, event, listener) ==
    [e \in DOMAIN ls \cup {event} |->
        IF e = event THEN << listener >> ELSE ls[e]]

\* on_limited, lines 296-299: push onto the event's Vec, or insert a new one.
PushListener(ls, event, listener) ==
    IF event \in DOMAIN ls
    THEN [ls EXCEPT ![event] = Append(@, listener)]
    ELSE [e \in DOMAIN ls \cup {event} |->
            IF e = event THEN << listener >> ELSE ls[e]]

RegEntry(event, limit) ==
    [event |-> event, limit |-> limit, emits |-> 0, calls |-> 0,
     removed |-> FALSE]

\* The body of on_limited, for the caller `via`.
Register(via, event, limit, ty, id) ==
    /\ listeners' = PushListener(listeners, event, Listener(id, limit, ty))
    /\ issued' = Append(issued, id)
    /\ reg' = [i \in DOMAIN reg \cup {id} |->
                 IF i = id THEN RegEntry(event, limit) ELSE reg[i]]
    /\ last' = [op |-> via, event |-> event, id |-> id, value |-> NoValue,
                ret |-> Some(id), panic |-> FALSE]
    /\ UNCHANGED <<threads, finished, log, nspawn, nemit>>

on_limited(event, limit, ty) ==
    \E id \in NewIds : Register("on_limited", event, limit, ty, id)

\* on: self.on_limited(event, None, callback)
OnLimit == None

on(event, ty) ==
    \E id \in NewIds : Register("on", event, OnLimit, ty, id)

\* once: self.on_limited(event, Some(1), callback)
\* mutant: once registers with Some(2)
OnceLimitTwo == Some(2)
OnceLimit == Some(1)

once(event, ty) ==
    \E id \in NewIds : Register("once", event, OnceLimit, ty, id)

\* ------------------------------------------------------------- removal
\* remove_listener: the HashMap is scanned in an arbitrary order; the first
\* bucket found to hold the id loses its first entry with that id.
Holders(id) == { e \in DOMAIN listeners : Position(listeners[e], id) # None }

\* mutant: event_listeners.pop() in place of remove(index)
RemoveFoundLast(bucket, index) == RemoveAt(bucket, Len(bucket))

RemoveFoundKeeps(bucket, index) == bucket
RemoveFound(bucket, index) == RemoveAt(bucket, index)

remove_listener(id_to_delete) ==
    /\ IF Holders(id_to_delete) # {}
       THEN \E e \in Holders(id_to_delete) :
              /\ listeners' = [listeners EXCEPT
                     ![e] = RemoveFound(@, Position(@, id_to_delete)[1])]
              /\ reg' = [reg EXCEPT ![id_to_delete].removed = TRUE]
              /\ last' = [op |-> "remove_listener", event |-> e,
                          id |-> id_to_delete, value |-> NoValue,
                          ret |-> Some(id_to_delete), panic |-> FALSE]
       ELSE /\ UNCHANGED <<listeners, reg>>
            /\ last' = [op |-> "remove_listener", event |-> "",
                        id |-> id_to_delete, value |-> NoValue,
                        ret |-> None, panic |-> FALSE]
    /\ UNCHANGED <<threads, finished, log, nspawn, issued, nemit>>


\* ---------------------------------------------------------------- emit
\* The match on listener.limit, lines 209-228, for one listener of the bucket.
\* Spawns: a thread is spawned for the callback (None, or Some(limit) with
\* limit != 0).
\* mutant: the limit != 0 test is missing
SpawnsAlways(listener) == TRUE

Spawns(listener) ==
    \/ listener.limit = None
    \/ listener.limit # None /\ listener.limit[1] # 0

\* listener.limit = Some(limit - 1), in the branch that spawns.
AfterCall(listener) ==
    IF listener.limit # None /\ listener.limit[1] # 0
    THEN [listener EXCEPT !.limit = Some(@[1] - 1)]
    ELSE listener

\* listeners_to_remove.push(index): Some(0), the else branch.
\* mutant: the else branch marks nothing
MarkedNever(listener) == FALSE

\* mutant: a listener is marked in the call that uses up its limit
MarkedEager(listener) ==
    listener.limit # None /\ listener.limit[1] <= 1

Marked(listener) ==
    listener.limit # None /\ listener.limit[1] = 0

\* callback_handlers.push(thread::spawn(handler)): Vec::push appends.
push_front(vec, x) == <<x>> \o vec
push(vec, x) == Append(vec, x)

\* for (index, listener) in listeners.iter_mut().enumerate() { ... }
RECURSIVE EmitLoop(_, _)
EmitLoop(acc, index) ==
    IF index > Len(acc.bucket)
    THEN acc
    ELSE LET listener == acc.bucket[index] IN
         EmitLoop(
            [bucket |-> [acc.bucket EXCEPT ![index] = AfterCall(listener)],
             spawned |-> IF Spawns(listener)
                         THEN push(acc.spawned, listener)
                         ELSE acc.spawned,
             to_remove |-> IF Marked(listener)
                           THEN Append(acc.to_remove, index)
                           ELSE acc.to_remove],
            index + 1)

\* The removal without .rev(): each index is taken after the removals before
\* it have shifted the bucket.
RECURSIVE PruneForward(_, _, _)
PruneForward(bucket, to_remove, k) ==
    IF k = 0
    THEN bucket
    ELSE LET b == PruneForward(bucket, to_remove, k - 1) IN
         IF to_remove[k] <= Len(b) THEN RemoveAt(b, to_remove[k]) ELSE b

\* for index in listeners_to_remove.into_iter().rev() { listeners.remove(index) }
RECURSIVE Prune(_, _, _)
Prune(bucket, to_remove, k) ==
    IF k = 0
    THEN bucket
    ELSE Prune(RemoveAt(bucket, to_remove[k]), to_remove, k - 1)

\* The thread spawned for one listener, with the clones it moves in: the
\* callback (its type T) and the bytes.  h names its JoinHandle; id and
\* value are history.
Thread(h, listener, bytes, value) ==
    [h |-> h, id |-> listener.id, ty |-> listener.ty, bytes |-> bytes,
     value |-> value]

\* The handler of a spawned thread: callback(cloned_bytes), which is
\* parsed_callback of on_limited: deserialize(&bytes).unwrap(), then the
\* user's callback with the decoded value.
Outcome(t) ==
    IF deserialize_ok(t.ty, t.bytes)
    THEN [id |-> t.id, ty |-> t.ty, value |-> t.value,
          st |-> "done", got |-> deserialize(t.ty, t.bytes)]
    ELSE [id |-> t.id, ty |-> t.ty, value |-> t.value,
          st |-> "panicked", got |-> NoValue]

Count(s, id) == Cardinality({ i \in 1..Len(s) : s[i].id = id })

EmitRet(event, value, ret, panic) ==
    [op |-> "emit", event |-> event, id |-> 0, value |-> value, ret |-> ret,
     panic |-> panic]

\* An emit that calls each handler before it returns, as sync_emit is meant
\* to (lib.rs:347-351), in place of thread::spawn.
emit_blocking(event, value) ==
    /\ nemit < MaxEmits
    /\ nemit' = nemit + 1
    /\ event \in DOMAIN listeners
    /\ serialize_ok(value)
    /\ LET bytes == serialize(value)
           r == EmitLoop([bucket |-> listeners[event], spawned |-> <<>>,
                          to_remove |-> <<>>], 1)
           n == Len(r.spawned)
       IN  /\ listeners' = [listeners EXCEPT
                  ![event] = Prune(r.bucket, r.to_remove, Len(r.to_remove))]
           /\ finished' = finished \cup
                  { Outcome(Thread(nspawn + k, r.spawned[k], bytes, value)) :
                      k \in 1..n }
           /\ nspawn' = nspawn + n
           /\ reg' = [i \in DOMAIN reg |->
                        IF reg[i].event = event /\ ~reg[i].removed
                        THEN [reg[i] EXCEPT
                                !.emits = @ + 1,
                                !.calls = @ + Count(r.spawned, i)]
                        ELSE reg[i]]
           /\ last' = EmitRet(event, value, [k \in 1..n |-> nspawn + k], FALSE)
    /\ UNCHANGED <<issued, threads, log>>

emit(event, value) ==
    /\ nemit < MaxEmits
    /\ nemit' = nemit + 1
    /\ IF event \notin DOMAIN listeners
       THEN /\ last' = EmitRet(event, value, <<>>, FALSE)
            /\ UNCHANGED <<listeners, threads, nspawn, reg>>
       ELSE IF ~serialize_ok(value)
       THEN \* serialize(&value).unwrap() panics: the call unwinds with
            \* the registry as it was
            /\ last' = EmitRet(event, value, <<>>, TRUE)
            /\ UNCHANGED <<listeners, threads, nspawn, reg>>
       ELSE LET bytes == serialize(value)
                r == EmitLoop([bucket |-> listeners[event], spawned |-> <<>>,
                               to_remove |-> <<>>], 1)
                n == Len(r.spawned)
            IN  /\ listeners' = [listeners EXCEPT
                       ![event] = Prune(r.bucket, r.to_remove, Len(r.to_remove))]
                /\ threads' = threads \cup
                       { Thread(nspawn + k, r.spawned[k], bytes, value) :
                           k \in 1..n }
                /\ nspawn' = nspawn + n
                /\ reg' = [i \in DOMAIN reg |->
                             IF reg[i].event = event /\ ~reg[i].removed
                             THEN [reg[i] EXCEPT
                                     !.emits = @ + 1,
                                     !.calls = @ + Count(r.spawned, i)]
                             ELSE reg[i]]
                /\ last' = EmitRet(event, value, [k \in 1..n |-> nspawn + k], FALSE)
    /\ UNCHANGED <<issued, finished, log>>

\* ------------------------------------------------------ spawned threads
\* A spawned thread runs its handler to its outcome, at any time after the
\* emit that spawned it.
\* A build in which a panic in one thread aborts the process (panic =
\* "abort"): the threads still pending never run.
RunAbortOnPanic(t) ==
    /\ t \in threads
    /\ threads' = IF Outcome(t).st = "done" THEN threads \ {t} ELSE {}
    /\ finished' = finished \cup {Outcome(t)}
    /\ log' = IF Outcome(t).st = "done"
              THEN [log EXCEPT ![t.id] = Append(@, Outcome(t).got.v)]
              ELSE log
    /\ UNCHANGED <<listeners, nspawn, issued, reg, nemit, last>>

Run(t) ==
    /\ t \in threads
    /\ threads' = threads \ {t}
    /\ finished' = finished \cup {Outcome(t)}
    /\ log' = IF Outcome(t).st = "done"
              THEN [log EXCEPT ![t.id] = Append(@, Outcome(t).got.v)]
              ELSE log
    /\ UNCHANGED <<listeners, nspawn, issued, reg, nemit, last>>

\* ------------------------------------------------------- specification
\* The calls a client can make, with the callback types drawn from T and
\* the emitted values from V.
Calls(T, V) ==
    \/ \E e \in Events, ty \in T : on(e, ty) /\ Owned
    \/ \E e \in Events, ty \in T : once(e, ty) /\ Owned
    \/ \E e \in Events, l \in Limits, ty \in T : on_limited(e, l, ty) /\ Owned
    \/ \E e \in Events, v \in V : emit(e, v) /\ Owned
    \/ \E id \in IdPool : remove_listener(id) /\ Owned

\* The registry's life cycle: every callback takes a u32 and every emitted
\* value is a u32 or fails to serialize.  The spawned threads touch only
\* `threads` and `finished`, which no call reads: they are left unscheduled.
Next == Calls({"u32"}, { v \in Values : v.ty # "u8" })

Spec == Init /\ [][Next]_vars


\* Listeners of both callback types on one event, values of every type, and
\* the spawned threads running in any order: what the callbacks receive.
NextTyped ==
    \/ \E ty \in Types : on("x", ty) /\ Owned
    \/ \E ty \in Types : once("x", ty) /\ Owned
    \/ \E v \in Values : emit("x", v) /\ Owned
    \/ \E t \in threads : Run(t) /\ Owned

SpecTyped == Init /\ [][NextTyped]_vars

\* One event, callbacks and values of one type, removals, and the spawned
\* threads running in any order between the calls.
EmitValue == [ty |-> "u32", v |-> 263]

NextThreads ==
    \/ on("x", "u32") /\ Owned
    \/ once("x", "u32") /\ Owned
    \/ emit("x", EmitValue) /\ Owned
    \/ \E id \in IdPool : remove_listener(id) /\ Owned
    \/ \E t \in threads : Run(t) /\ Owned

SpecThreads == Init /\ [][NextThreads]_vars

\* The JoinHandles emit can have returned, and the thread of one of them
\* running.
Handles == 1..(MaxIds * MaxEmits)
RunHandle(h) == \E t \in threads : t.h = h /\ Run(t) /\ Owned

\* Listeners of limit 2 that are removed while their threads are in flight;
\* the scheduler runs every spawned thread in the end.
NextRemove ==
    \/ on_limited("x", Some(2), "u32") /\ Owned
    \/ emit("x", EmitValue) /\ Owned
    \/ \E id \in IdPool : remove_listener(id) /\ Owned
    \/ \E h \in Handles : RunHandle(h)

SpecRemoveFair ==
    /\ Init
    /\ [][NextRemove]_vars
    /\ \A h \in Handles : WF_vars(RunHandle(h))

\* A client that joins every handle an emit returned before it emits again,
\* and emits 1, 2, 3, ... (tests.rs:15-24).  join() returns once the thread
\* of the handle has finished; the handles returned so far are 1..nspawn.
PendingHandle(h) == \E t \in threads : t.h = h
JoinedAlready(handles) == TRUE
Joined(handles) == \A h \in handles : ~PendingHandle(h)
NextValue == [ty |-> "u32", v |-> nemit + 1]

NextJoin ==
    \/ on("x", "u32") /\ Owned
    \/ once("x", "u32") /\ Owned
    \/ Joined(1..nspawn) /\ emit("x", NextValue) /\ Owned
    \/ \E t \in threads : Run(t) /\ Owned

SpecJoin == Init /\ [][NextJoin]_vars

\* Buckets of up to MaxBucket listeners.  The initial states are the states
\* after on_limited("x", limits[1], cb), ..., on_limited("x", limits[n], cb)
\* on a new emitter, the ids issued being 1, ..., n.
BucketIds == 1..MaxBucket

Registered(limits) ==
    LET n == Len(limits) IN
    /\ listeners = IF n = 0 THEN <<>>
                   ELSE [e \in {"x"} |->
                            [i \in 1..n |-> Listener(i, limits[i], "u32")]]
    /\ issued = [i \in 1..n |-> i]
    /\ reg = [i \in 1..n |-> RegEntry("x", limits[i])]
    /\ last = IF n = 0 THEN NoCall
              ELSE [op |-> "on_limited", event |-> "x", id |-> n,
                    value |-> NoValue, ret |-> Some(n), panic |-> FALSE]
    /\ threads = {}
    /\ finished = {}
    /\ log = [i \in IdPool \cup BucketIds |-> <<>>]
    /\ nspawn = 0
    /\ nemit = 0
    /\ mutex = NewMutex
    /\ callers = [c \in Callers |-> Idle]

InitBucket ==
    \E n \in 0..MaxBucket : \E limits \in [1..n -> Limits] : Registered(limits)

NextBucket ==
    \/ \E l \in Limits : on_limited("x", l, "u32") /\ Owned
    \/ emit("x", EmitValue) /\ Owned
    \/ \E id \in BucketIds : remove_listener(id) /\ Owned

SpecBucket == InitBucket /\ [][NextBucket]_vars

\* ---------------------------------------------------- a shared emitter
\* One emitter in a lazy_static Mutex (tests.rs:117-124, lib.rs:78-81), and
\* threads that each make calls of the form
\*     EVENT_EMITTER.lock().unwrap().call(..);
\* the guard is dropped at the end of the statement.  A call on the shared
\* emitter runs while other threads run: emit is taken in its two phases,
\* the loop over the bucket (lib.rs:196-229) and the removal of the indices
\* it recorded (lib.rs:231-234).
evars == <<listeners, threads, finished, log, nspawn, issued, reg, nemit, last>>

\* Mutex::lock blocks until no other thread holds the guard.
CanLockAlways == TRUE
CanLock == mutex.holder = Free

\* Dropping the guard; a guard dropped while its thread panics poisons the
\* Mutex.
ReleaseNever(m) == m
Release(m) == [m EXCEPT !.holder = Free]
Poison(m) == [holder |-> Free, poisoned |-> TRUE]

Holds(c) == callers[c].pc = "locked"
Returns(c) == callers' = [callers EXCEPT ![c] = Idle]
Panics(c) == callers' = [callers EXCEPT ![c] = [Idle EXCEPT !.pc = "panicked"]]

\* EVENT_EMITTER.lock().unwrap(): lock() is an Err when the Mutex is
\* poisoned, and unwrap panics.
Lock(c) ==
    /\ callers[c].pc = "idle"
    /\ CanLock
    /\ IF mutex.poisoned
       THEN Panics(c) /\ UNCHANGED mutex
       ELSE /\ mutex' = [mutex EXCEPT !.holder = [caller |-> c, thread |-> 0]]
            /\ callers' = [callers EXCEPT ![c].pc = "locked"]
    /\ UNCHANGED evars

\* .on_limited(event, limit, callback);
CallOn(c, event, limit) ==
    /\ Holds(c)
    /\ on_limited(event, limit, "u32")
    /\ mutex' = Release(mutex)
    /\ Returns(c)

\* .remove_listener(id);
CallRemove(c, id) ==
    /\ Holds(c)
    /\ remove_listener(id)
    /\ mutex' = Release(mutex)
    /\ Returns(c)

\* .emit(event, value), to the end of the loop over the bucket: lines
\* 189-229.  Without a bucket the call returns; a value that fails to
\* serialize panics, and the guard dropped in the unwinding poisons the
\* Mutex.
CallEmitLoop(c, event, value) ==
    /\ Holds(c)
    /\ nemit < MaxEmits
    /\ nemit' = nemit + 1
    /\ UNCHANGED <<issued, finished, log>>
    /\ IF event \notin DOMAIN listeners
       THEN /\ last' = EmitRet(event, value, <<>>, FALSE)
            /\ mutex' = Release(mutex)
            /\ Returns(c)
            /\ UNCHANGED <<listeners, threads, nspawn, reg>>
       ELSE IF ~serialize_ok(value)
       THEN /\ last' = EmitRet(event, value, <<>>, TRUE)
            /\ mutex' = Poison(mutex)
            /\ Panics(c)
            /\ UNCHANGED <<listeners, threads, nspawn, reg>>
       ELSE LET bytes == serialize(value)
                r == EmitLoop([bucket |-> listeners[event], spawned |-> <<>>,
                               to_remove |-> <<>>], 1)
                n == Len(r.spawned)
            IN  /\ listeners' = [listeners EXCEPT ![event] = r.bucket]
                /\ threads' = threads \cup
                       { Thread(nspawn + k, r.spawned[k], bytes, value) :
                           k \in 1..n }
                /\ nspawn' = nspawn + n
                /\ reg' = [i \in DOMAIN reg |->
                             IF reg[i].event = event /\ ~reg[i].removed
                             THEN [reg[i] EXCEPT !.calls = @ + Count(r.spawned, i)]
                             ELSE reg[i]]
                /\ callers' = [callers EXCEPT ![c] =
                       [pc |-> "prune", event |-> event, value |-> value,
                        ret |-> [k \in 1..n |-> nspawn + k],
                        to_remove |-> r.to_remove]]
                /\ UNCHANGED <<last, mutex>>

\* .emit(event, value), from the removal to the return: lines 231-237.
\* Vec::remove panics on an index that is out of bounds.
CallEmitPrune(c) ==
    /\ callers[c].pc = "prune"
    /\ LET event == callers[c].event
           to_remove == callers[c].to_remove
           n == Len(to_remove)
       IN  IF n > 0 /\ to_remove[n] > Len(listeners[event])
           THEN /\ last' = EmitRet(event, callers[c].value, <<>>, TRUE)
                /\ mutex' = Poison(mutex)
                /\ Panics(c)
                /\ UNCHANGED <<listeners, reg>>
           ELSE /\ listeners' = [listeners EXCEPT
                       ![event] = Prune(listeners[event], to_remove, n)]
                /\ reg' = [i \in DOMAIN reg |->
                             IF reg[i].event = event /\ ~reg[i].removed
                             THEN [reg[i] EXCEPT !.emits = @ + 1]
                             ELSE reg[i]]
                /\ last' = EmitRet(event, callers[c].value, callers[c].ret, FALSE)
                /\ mutex' = Release(mutex)
                /\ Returns(c)
    /\ UNCHANGED <<threads, finished, log, nspawn, issued, nemit>>

\* Threads sharing the emitter, with overlapping calls on one event.
NextMutex ==
    \/ \E c \in Callers : Lock(c)
    \/ \E c \in Callers, l \in Limits : CallOn(c, "x", l)
    \/ \E c \in Callers, id \in IdPool : CallRemove(c, id)
    \/ \E c \in Callers : CallEmitLoop(c, "x", EmitValue)
    \/ \E c \in Callers : CallEmitPrune(c)

SpecMutex == Init /\ [][NextMutex]_vars

\* A callback that itself locks the shared emitter, in the same way:
\*     EVENT_EMITTER.lock().unwrap()
\* and drops the guard when it is done.  On a poisoned Mutex unwrap panics.
CallbackLock(t) ==
    /\ t \in threads
    /\ Outcome(t).st = "done"
    /\ CanLock
    /\ IF mutex.poisoned
       THEN /\ threads' = threads \ {t}
            /\ finished' = finished \cup
                   {[Outcome(t) EXCEPT !.st = "panicked", !.got = NoValue]}
            /\ UNCHANGED mutex
       ELSE /\ mutex' = [mutex EXCEPT !.holder = [caller |-> "", thread |-> t.h]]
            /\ UNCHANGED <<threads, finished>>
    /\ UNCHANGED <<listeners, log, nspawn, issued, reg, nemit, last, callers>>

CallbackRun(t) ==
    /\ mutex.holder.thread = t.h
    /\ Run(t)
    /\ mutex' = Release(mutex)
    /\ UNCHANGED callers

\* The global emitter: threads whose calls overlap, emitted values that may
\* fail to serialize, and listeners of limit 1 whose callbacks lock the
\* emitter.
\* A caller whose emit statement joins the handles before the guard is
\* dropped.
CallJoining(c) ==
    \/ CallOn(c, "x", Some(1))
    \/ \E id \in IdPool : CallRemove(c, id)
    \/ \E v \in {EmitValue, [ty |-> "opaque", v |-> 0]} : CallEmitLoop(c, "x", v)
    \/ /\ Joined({ callers[c].ret[k] : k \in 1..Len(callers[c].ret) })
       /\ CallEmitPrune(c)

Call(c) ==
    \/ CallOn(c, "x", Some(1))
    \/ \E id \in IdPool : CallRemove(c, id)
    \/ \E v \in {EmitValue, [ty |-> "opaque", v |-> 0]} : CallEmitLoop(c, "x", v)
    \/ CallEmitPrune(c)

NextGlobal ==
    \/ \E c \in Callers : Lock(c)
    \/ \E c \in Callers : Call(c)
    \/ \E t \in threads : CallbackLock(t)
    \/ \E t \in threads : CallbackRun(t)

\* Fair scheduling: a thread that holds the guard goes on with its call, and
\* a callback that is again and again able to take the guard takes it.
SpecGlobalFair ==
    /\ Init
    /\ [][NextGlobal]_vars
    /\ WF_vars(\E c \in Callers : Call(c))
    /\ SF_vars(\E t \in threads : CallbackLock(t))
    /\ WF_vars(\E t \in threads : CallbackRun(t))

\* ================================================================ claims
\* Shorthands over the state.
Limited(id) == reg[id].limit # None /\ ~reg[id].removed
DeclaredLimit(id) == reg[id].limit[1]
Present(id) == id \in RegistryIds

\* The places <<event, index>> of the registry that hold id.
Places(id) ==
    { p \in UNION { {e} \X (1..Len(listeners[e])) : e \in DOMAIN listeners } :
        listeners[p[1]][p[2]].id = id }

\* The stored limit of a listener that is present.
StoredLimit(id) ==
    LET p == CHOOSE q \in Places(id) : TRUE IN listeners[p[1]][p[2]].limit

\* A step that is a call of the emitter's API (a thread running removes a
\* thread instead).
CallStep == threads \subseteq threads'
EmitStep == CallStep /\ nemit' = nemit + 1
ZeroListeners(e) == e \notin DOMAIN listeners \/ listeners[e] = <<>>

\* C1: a listener registered with limit Some(n) and not removed by
\* remove_listener has had exactly min(n, k) invocations scheduled after k
\* emit calls on its event have returned.
C1_LimitedCallCount ==
    \A id \in DOMAIN reg :
        Limited(id) => reg[id].calls = Min(DeclaredLimit(id), reg[id].emits)

\* n = 2, k = 3: two invocations.
C1_Witness ==
    \E id \in DOMAIN reg :
        /\ Limited(id) /\ DeclaredLimit(id) = 2
        /\ reg[id].emits = 3 /\ reg[id].calls = 2

\* C2: a listener registered with limit Some(n), n >= 1, is absent from the
\* registry once its n-th invocation has been scheduled.
C2_AbsentAfterNthCall ==
    \A id \in DOMAIN reg :
        (Limited(id) /\ DeclaredLimit(id) >= 1
            /\ reg[id].calls = DeclaredLimit(id))
        => ~Present(id)

C4_StepOk ==
    EmitStep /\ ~last'.panic /\ last'.event \in DOMAIN listeners =>
        \A i \in 1..Len(listeners[last'.event]) :
            LET l == listeners[last'.event][i] IN
            l.limit = Some(0) =>
                /\ \A t \in threads' \ threads : t.id # l.id
                /\ l.id \notin Ids(listeners'[last'.event])

C4_NoUnderflow ==
    \A e \in DOMAIN listeners : \A i \in 1..Len(listeners[e]) :
        listeners[e][i].limit # None => listeners[e][i].limit[1] >= 0

\* C4: every emit step treats the Some(0) listeners so, and no stored limit
\* underflows.
C4_ZeroNeverInvoked == [][C4_StepOk]_vars /\ []C4_NoUnderflow

\* A listener registered with Some(0): one emit later it is gone, never
\* invoked.
C4_Witness ==
    \E id \in DOMAIN reg :
        /\ Limited(id) /\ DeclaredLimit(id) = 0
        /\ reg[id].emits = 1 /\ reg[id].calls = 0 /\ ~Present(id)
        /\ last.op = "emit" /\ last.event = reg[id].event /\ ~last.panic

\* C5: remove_listener(id) with id in the registry returns Some(id) and
\* removes that one entry: the bucket loses the entry and keeps the others in
\* order, the other buckets are unchanged and no bucket disappears.
C5_StepOk ==
    CallStep /\ last'.op = "remove_listener" /\ Present(last'.id) =>
        /\ last'.ret = Some(last'.id)
        /\ DOMAIN listeners' = DOMAIN listeners
        /\ \E p \in Places(last'.id) :
              /\ listeners'[p[1]] = RemoveAt(listeners[p[1]], p[2])
              /\ \A e \in DOMAIN listeners \ {p[1]} :
                    listeners'[e] = listeners[e]

C6_StepOk ==
    CallStep /\ last'.op = "remove_listener" /\ ~Present(last'.id) =>
        /\ last'.ret = None
        /\ ~last'.panic
        /\ listeners' = listeners

\* C6: every remove_listener step on an id outside the registry returns
\* None and changes no bucket.
C6_RemoveUnknown == [][C6_StepOk]_vars

\* The second remove_listener of an id that was removed.
C6_Witness ==
    /\ last.op = "remove_listener" /\ last.ret = None
    /\ last.id \in DOMAIN reg /\ reg[last.id].removed
    /\ RegistryIds # {}

\* C7, as claimed: emit on an event name with no bucket or an empty bucket
\* returns an empty handle list, schedules nothing and changes nothing.
C7_StepClaimed ==
    EmitStep /\ ZeroListeners(last'.event) =>
        /\ ~last'.panic /\ last'.ret = <<>>
        /\ threads' = threads
        /\ listeners' = listeners

\* C7, as claimed: every emit step on a name with zero listeners returns an
\* empty handle list and changes nothing.
C7_EmitNoListeners == [][C7_StepClaimed]_vars

\* C7, amended: such an emit schedules nothing and leaves the registry
\* unchanged; it returns an empty handle list, unless the name has an (empty)
\* bucket and the value does not serialize: then it panics.
C7_StepOk ==
    EmitStep /\ ZeroListeners(last'.event) =>
        /\ threads' = threads
        /\ listeners' = listeners
        /\ last'.ret = <<>>
        /\ last'.panic <=>
              (last'.event \in DOMAIN listeners /\ last'.value.ty = "opaque")

\* C7, amended: every emit step on a name with zero listeners changes
\* nothing, and returns an empty handle list or panics on an unserializable
\* value for a name that has a bucket.
C7_EmitNoListenersAmended == [][C7_StepOk]_vars

\* emit on a name whose bucket has been emptied, with a value that
\* serializes: an empty handle list.
C7_Witness ==
    /\ last.op = "emit" /\ ~last.panic /\ last.ret = <<>>
    /\ last.event \in DOMAIN listeners /\ listeners[last.event] = <<>>
    /\ threads = {}

\* C8: no id is issued twice, and every id in the registry was issued and
\* is at exactly one place of it.
C8_UniqueIds ==
    /\ \A i, j \in 1..Len(issued) : i # j => issued[i] # issued[j]
    /\ \A id \in RegistryIds :
          /\ \E i \in 1..Len(issued) : issued[i] = id
          /\ Cardinality(Places(id)) = 1

\* Two registrations on one event, both listeners present.
C8_Witness ==
    /\ Len(issued) = 2
    /\ \E e \in DOMAIN listeners : Len(listeners[e]) = 2

\* C10: once(E, cb) registers what on_limited(E, Some(1), cb) registers, and
\* on(E, cb) what on_limited(E, None, cb) registers: the registry after the
\* call is the registry before it with that one listener pushed.  A listener
\* holds only its id, limit and callback, so the calls that follow see no
\* difference.
C10_StepOk ==
    CallStep /\ last'.op \in {"once", "on"} =>
        LET limit == IF last'.op = "once" THEN Some(1) ELSE None IN
        /\ \E ty \in Types :
              listeners' = PushListener(listeners, last'.event,
                                        Listener(last'.id, limit, ty))
        /\ reg'[last'.id] = RegEntry(last'.event, limit)
        /\ last'.ret = Some(last'.id)

\* C10: every once step is the on_limited step with Some(1), every on step
\* the on_limited step with None.
C10_OnceIsLimitedOne == [][C10_StepOk]_vars

\* once has registered a listener next to one already there.
C10_Witness ==
    /\ last.op = "once"
    /\ Len(listeners[last.event]) = 2
    /\ listeners[last.event][2].id = last.id
    /\ listeners[last.event][2].limit = Some(1)


\* C9, as claimed: every invocation scheduled by emit(E, v) receives a value
\* equal to v.
C9_EveryCallGetsValue ==
    \A o \in finished : o.st = "done" /\ o.got.v = o.value.v

\* C9, amended: every invocation whose callback takes the type of the
\* emitted value receives that value, whatever else is registered or emitted.
C9_MatchingCallGetsValue ==
    \A o \in finished : o.ty = o.value.ty => o.st = "done" /\ o.got = o.value

\* Two listeners have both received the u32 of the one emit call made so
\* far.
C9_Witness ==
    /\ nemit = 1
    /\ \E o1, o2 \in finished :
          /\ o1.id # o2.id
          /\ o1.st = "done" /\ o2.st = "done"
          /\ o1.value.ty = "u32" /\ o1.ty = "u32" /\ o2.ty = "u32"
          /\ o1.got = o1.value /\ o2.got = o1.value

\* A step that removes a listener, and a step in which a thread runs.
RemoveStep == last'.op = "remove_listener" /\ last'.ret # None /\ reg' # reg
RunStep == threads' # threads /\ threads' \subseteq threads
Range(s) == { s[k] : k \in 1..Len(s) }

\* C11: emit returns without waiting for the invocations it scheduled: when
\* it returns, its registry updates are applied (the stored limit of every
\* scheduled limited listener is one less), every handle it returns names a
\* thread that has not run yet, and no invocation has completed during the
\* call; the threads complete afterwards.
C11_StepOk ==
    EmitStep =>
        LET new == threads' \ threads IN
        /\ finished' = finished
        /\ log' = log
        /\ { t.h : t \in new } = Range(last'.ret)
        /\ \A t \in new :
               \/ StoredLimit(t.id) = None
               \/ /\ StoredLimit(t.id)[1] > 0
                  /\ StoredLimit(t.id)' = Some(StoredLimit(t.id)[1] - 1)
C11_EmitDoesNotWait == [][C11_StepOk]_vars

\* The last call was an emit that returned two handles; since it returned,
\* one of its two invocations has completed and the other has not started.
C11_Witness ==
    /\ last.op = "emit"
    /\ Len(last.ret) = 2
    /\ PendingHandle(last.ret[2])
    /\ ~PendingHandle(last.ret[1])
    /\ nemit >= 2

RemovedInFlight(id) ==
    id \in DOMAIN reg /\ reg[id].removed /\ \E t \in threads : t.id = id

\* C12: remove_listener cancels no invocation already scheduled: the step
\* leaves the pending threads as they are, the thread of a removed listener
\* runs in the end and completes with the emitted value, and no later emit
\* schedules the removed listener.
C12_StepOk ==
    /\ RemoveStep => threads' = threads /\ finished' = finished
    /\ EmitStep => \A t \in threads' \ threads : ~reg[t.id].removed
    /\ RunStep =>
         \A t \in threads \ threads' :
            /\ [id |-> t.id, ty |-> t.ty, value |-> t.value, st |-> "done",
                got |-> t.value] \in finished'
            /\ log'[t.id] = Append(log[t.id], t.value.v)
C12_RemoveDoesNotCancel ==
    /\ [][C12_StepOk]_vars
    /\ \A id \in IdPool : RemovedInFlight(id) ~> ~RemovedInFlight(id)

\* A removed listener with an invocation in flight.
C12_Witness ==
    \E t \in threads :
        /\ reg[t.id].removed
        /\ last.op = "remove_listener"
        /\ last.ret = Some(t.id)

InFlight(id) == Cardinality({ t \in threads : t.id = id })

\* C13: when every handle an emit returned is joined before the next emit,
\* the callback of an unlimited listener is called with the emitted values
\* in emit order: its list is always the values of the emits since its
\* registration, in order, less the invocations still in flight.
C13_InEmitOrder ==
    \A id \in DOMAIN reg :
        reg[id].limit = None =>
            /\ Len(log[id]) = reg[id].emits - InFlight(id)
            /\ \A k \in 1..Len(log[id]) :
                   log[id][k] = nemit - reg[id].emits + k

C13_Witness == \E id \in DOMAIN reg : reg[id].limit = None /\ log[id] = <<1, 2, 3>>

\* The listeners of a bucket with a given stored limit.
WithLimit(bucket, limit) ==
    { bucket[i].id : i \in { j \in 1..Len(bucket) : bucket[j].limit = limit } }

\* C14: a decode failure in one listener's invocation stays in that
\* invocation.  An emit whose value serializes returns without panicking,
\* schedules every listener of the bucket that has calls left, whatever its
\* callback type, and decrements and prunes the bucket as ever; a thread
\* that runs, panicking or not, changes neither the registry nor the other
\* threads, and a thread whose callback type is the value's completes with
\* the emitted value.
C14_StepOk ==
    /\ (EmitStep /\ serialize_ok(last'.value) /\ "x" \in DOMAIN listeners) =>
         LET bucket == listeners["x"] IN
         /\ ~last'.panic
         /\ { t.id : t \in threads' \ threads } = Ids(bucket) \ WithLimit(bucket, Some(0))
         /\ Ids(listeners'["x"]) = Ids(bucket) \ WithLimit(bucket, Some(0))
         /\ WithLimit(listeners'["x"], None) = WithLimit(bucket, None)
         /\ WithLimit(listeners'["x"], Some(0)) = WithLimit(bucket, Some(1))
    /\ RunStep =>
         /\ UNCHANGED <<listeners, reg, last>>
         /\ Cardinality(threads') = Cardinality(threads) - 1
         /\ \A t \in threads \ threads' :
                t.ty = t.value.ty =>
                   /\ [id |-> t.id, ty |-> t.ty, value |-> t.value,
                       st |-> "done", got |-> t.value] \in finished'
                   /\ log'[t.id] = Append(log[t.id], t.value.v)
C14_DecodeFailureConfined == [][C14_StepOk]_vars

\* One emit to a bucket of two listeners of different callback types: the
\* invocation of one has panicked in deserialize, that of the other has
\* completed with the value.
C14_Witness ==
    /\ nemit = 1
    /\ \E o1, o2 \in finished :
          /\ o1.st = "panicked"
          /\ o2.st = "done"
          /\ o2.got = o2.value
          /\ o1.id # o2.id

\* C15: an emit whose value fails to serialize, on an event that has a
\* bucket, aborts before the loop over the bucket: the call panics, no
\* thread is spawned, no limit is decremented, no listener is removed.
C15_StepOk ==
    (EmitStep /\ last'.value.ty = "opaque" /\ last'.event \in DOMAIN listeners) =>
        /\ last'.panic
        /\ last'.ret = <<>>
        /\ UNCHANGED <<listeners, threads, nspawn, reg, finished, log>>
C15_EncodeFailureAborts == [][C15_StepOk]_vars

\* Such an emit has just panicked on a bucket holding a listener that an
\* emit would have scheduled and decremented, and one it would have removed.
C15_Witness ==
    /\ last.op = "emit"
    /\ last.panic
    /\ \E i, j \in 1..Len(listeners[last.event]) :
          /\ listeners[last.event][i].limit \in {Some(1), Some(2)}
          /\ listeners[last.event][j].limit = Some(0)

\* The listeners of a bucket that an emit schedules, in bucket order.
HasCallsLeft(listener) ==
    listener.limit = None \/ (listener.limit # None /\ listener.limit[1] > 0)
Eligible(bucket) == SelectSeq(bucket, HasCallsLeft)
ThreadOf(ts, h) == CHOOSE t \in ts : t.h = h

\* C16: an emit that returns schedules exactly one invocation for each
\* listener of the bucket whose limit is None or Some(k) with k > 0, in
\* bucket order, and none for any other; the handles it returns are those
\* of the threads it spawned, one each, in the same order.
C16_StepOk ==
    (EmitStep /\ ~last'.panic /\ last'.event \in DOMAIN listeners) =>
        LET eligible == Eligible(listeners[last'.event])
            new == threads' \ threads
            ret == last'.ret
        IN  /\ Len(ret) = Len(eligible)
            /\ Cardinality(new) = Len(eligible)
            /\ { t.h : t \in new } = Range(ret)
            /\ \A k \in 1..Len(ret) :
                   /\ ThreadOf(new, ret[k]).id = eligible[k].id
                   /\ ThreadOf(new, ret[k]).value = last'.value
                   /\ \A j \in 1..(k - 1) : ret[j] < ret[k]
C16_OnePerEligibleInOrder == [][C16_StepOk]_vars

\* An emit has just returned two handles from a bucket of two listeners.
C16_Witness ==
    /\ last.op = "emit"
    /\ Len(last.ret) = 2
    /\ Len(listeners[last.event]) = 2

\* The ids of a bucket in bucket order, and the place of an id in the order
\* of registration.
IdSeq(bucket) == [i \in 1..Len(bucket) |-> bucket[i].id]
RegisteredAt(id) == CHOOSE k \in 1..Len(issued) : issued[k] = id
NotZero(listener) == listener.limit # Some(0)

\* C17: every bucket holds its listeners in their order of registration,
\* and the pruning of an emit removes exactly the listeners whose stored
\* limit was Some(0): the ids left are those of the others, in the order
\* they had.
C17_InOrder ==
    \A e \in DOMAIN listeners :
        \A i, j \in 1..Len(listeners[e]) :
            i < j => RegisteredAt(listeners[e][i].id) < RegisteredAt(listeners[e][j].id)
C17_StepOk ==
    (EmitStep /\ ~last'.panic /\ last'.event \in DOMAIN listeners) =>
        /\ IdSeq(listeners'[last'.event]) = IdSeq(SelectSeq(listeners[last'.event], NotZero))
        /\ \A e \in DOMAIN listeners \ {last'.event} : listeners'[e] = listeners[e]
C17_PruneKeepsOrder == []C17_InOrder /\ [][C17_StepOk]_vars

\* After the only emit so far, the listener registered second is what is
\* left of a bucket of three: the emit pruned the first and the third.
C17_Witness ==
    /\ nemit = 1
    /\ last.op = "emit"
    /\ Len(issued) = 3
    /\ \A id \in DOMAIN reg : ~reg[id].removed
    /\ IdSeq(listeners["x"]) = <<2>>

\* A step that registers a listener.
RegisterStep == last'.op \in {"on", "once", "on_limited"} /\ issued' # issued
BucketOf(ls, event) == IF event \in DOMAIN ls THEN ls[event] ELSE <<>>
ListenerOf(bucket, id) == bucket[CHOOSE i \in 1..Len(bucket) : bucket[i].id = id]

\* C19: an emit on E leaves every other bucket as it was, adds no listener
\* to E's bucket, leaves every unlimited listener of it in place and
\* unaltered, and to a limited listener does one of: remove it, store its
\* limit less exactly 1, or (when the call panics) nothing.  A registration
\* on E appends one listener to E's bucket and leaves every other listener
\* and bucket as it was.
C19_StepOk ==
    /\ EmitStep =>
         LET pre == BucketOf(listeners, last'.event)
             post == BucketOf(listeners', last'.event)
         IN  /\ DOMAIN listeners' = DOMAIN listeners
             /\ \A e \in DOMAIN listeners \ {last'.event} : listeners'[e] = listeners[e]
             /\ Ids(post) \subseteq Ids(pre)
             /\ \A i \in 1..Len(pre) :
                    IF pre[i].limit = None
                    THEN pre[i].id \in Ids(post) /\ ListenerOf(post, pre[i].id) = pre[i]
                    ELSE \/ pre[i].id \notin Ids(post)
                         \/ /\ pre[i].limit[1] > 0
                            /\ ListenerOf(post, pre[i].id) =
                                  [pre[i] EXCEPT !.limit = Some(pre[i].limit[1] - 1)]
                         \/ last'.panic /\ ListenerOf(post, pre[i].id) = pre[i]
    /\ RegisterStep =>
         LET pre == BucketOf(listeners, last'.event)
             post == BucketOf(listeners', last'.event)
         IN  /\ DOMAIN listeners' = DOMAIN listeners \cup {last'.event}
             /\ \A e \in DOMAIN listeners \ {last'.event} : listeners'[e] = listeners[e]
             /\ Len(post) = Len(pre) + 1
             /\ SubSeq(post, 1, Len(pre)) = pre
             /\ post[Len(post)].id = last'.id
C19_Frame == [][C19_StepOk]_vars

\* An emit on "x" has just returned; the bucket of "x" is an unlimited
\* listener followed by one registered with limit Some(2), now Some(1).
C19_Witness ==
    /\ last.op = "emit" /\ last.event = "x" /\ ~last.panic
    /\ Len(BucketOf(listeners, "x")) = 2
    /\ listeners["x"][1].limit = None
    /\ listeners["x"][2].limit = Some(1)
    /\ reg[listeners["x"][2].id].limit = Some(2)

\* No call of emit is between its loop and its return.
EmitsReturned == \A c \in Callers : callers[c].pc # "prune"

\* C18: with the emitter behind the Mutex and the calls of several threads
\* overlapping, a listener registered with limit Some(n) and not removed by
\* remove_listener has never had more than n invocations scheduled, and has
\* had exactly min(n, k) once the k emits on its event have returned.
C18_AtomicUnderMutex ==
    \A id \in DOMAIN reg :
        Limited(id) =>
            /\ reg[id].calls <= DeclaredLimit(id)
            /\ EmitsReturned => reg[id].calls = Min(DeclaredLimit(id), reg[id].emits)

\* A listener of limit 2 has been scheduled twice by two emits that have
\* returned, and a third emit is between its loop and its return.
C18_Witness ==
    /\ callers["a"].pc = "prune"
    /\ nemit = 3
    /\ \E id \in DOMAIN reg :
          /\ Limited(id)
          /\ DeclaredLimit(id) = 2
          /\ reg[id].calls = 2
          /\ reg[id].emits = 2

\* An invocation of listener id is scheduled and has not completed.
Scheduled(id) == \E t \in threads : t.id = id

====
